---- MODULE Spec2Model ----
(***************************************************************************)
(* The slide-deck navigation controller of src/presentation/script.js.     *)
(*                                                                         *)
(* The script is one immediately-invoked function.  Its state is the       *)
(* closure variable `current`, the inline display style of every slide,    *)
(* the children of the breadcrumb container, the disabled flags of the     *)
(* two buttons and the listeners attached so far.  The script body and     *)
(* every event handler run to completion on the single UI thread; `pc` is  *)
(* the line of the script about to be executed, or "idle" when the event   *)
(* loop is waiting for the next input event.                               *)
(***************************************************************************)
EXTENDS Integers, Sequences, FiniteSets, TLC

\* Largest deck explored (slides.length ranges over 0..MaxSlides).
MaxSlides == 5

\* Longest run of identical arrow-key presses that is counted.
MaxPresses == 6

\* How far outside 0..MaxSlides-1 a directly requested index may lie.
MaxOvershoot == 3

\* slide.dataset.title of a slide that carries no data-title attribute.
NoTitle == "undefined"

\* The data-title values a slide may carry: none, the empty string, a text.
Titles == {NoTitle, "", "Intro"}

\* event.key values: the two handled keys and one unrelated key.
Keys == {"ArrowRight", "ArrowLeft", "Enter"}

VARIABLES
    slides,         \* slides[i] = [title, display] for i in 0..length-1
    current,        \* let current
    breadcrumbs,    \* children of the breadcrumb container, in order
    prevDisabled,   \* prevBtn.disabled
    nextDisabled,   \* nextBtn.disabled
    listeners,      \* listeners attached so far: "prev", "next", "keydown"
    pc,             \* line about to run, or "idle"
    event,          \* the input event being handled or, when idle, handled last
    call,           \* <<>> or <<frame>>: the goTo call of that event, if it made one
    pre,            \* <<>> or <<snapshot>>: the state when that event was dispatched
    run,            \* <<>> or <<r>>: the run of identical arrow-key presses so far
    threw           \* an uncaught TypeError was raised

vars == <<slides, current, breadcrumbs, prevDisabled, nextDisabled,
          listeners, pc, event, call, pre, run, threw>>

\* slides.length
length == Cardinality(DOMAIN slides)

\* Math.max and Math.min of two integers.
MathMax(a, b) == IF a >= b THEN a ELSE b
MathMin(a, b) == IF a <= b THEN a ELSE b

\* A slide is visible unless its inline display style is 'none'.
Visible(i) == slides[i].display # "none"
VisibleSet == {i \in DOMAIN slides : Visible(i)}

\* The label with a 0-based number in the fallback: `<word> ${index}`.
LabelZeroBased(slide, index) ==
    IF slide.title = NoTitle \/ slide.title = ""
    THEN "Slajd " \o ToString(index)
    ELSE slide.title

\* The label of the marker of slide `index`:
\*   slide.dataset.title || `<word> ${index + 1}`
\* An absent title (undefined) and an empty one are both falsy.  The word of
\* the fallback is the Cyrillic literal of line 16, transliterated here.
Label(slide, index) ==
    IF slide.title = NoTitle \/ slide.title = ""
    THEN "Slajd " \o ToString(index + 1)
    ELSE slide.title

\* The marker built from the index of the slide shown when the handler was
\* entered, not from the value `current` has when the markers are rebuilt.
CrumbOld(index) ==
    [className |-> IF index = (IF pre # <<>> THEN pre[1].current ELSE current)
                   THEN "crumb active" ELSE "crumb",
     label     |-> Label(slides[index], index),
     index     |-> index]

\* The marker of a loop whose counter is shared by all click listeners: each
\* listener sees the value the counter has when the loop is over.
CrumbSharedIndex(index) ==
    [className |-> IF index = current THEN "crumb active" ELSE "crumb",
     label     |-> Label(slides[index], index),
     index     |-> length]

\* The marker built for slide `index` by the body of the forEach callback:
\* its class, its label and the index its click listener closes over.
Crumb(index) ==
    [className |-> IF index = current THEN "crumb active" ELSE "crumb",
     label     |-> Label(slides[index], index),
     index     |-> index]

\* slides.forEach(...) of updateBreadcrumbs from `index` on: one marker
\* appended per slide, in slide order.
RECURSIVE AppendCrumbs(_, _)
AppendCrumbs(children, index) ==
    IF index >= length
    THEN children
    ELSE AppendCrumbs(Append(children, Crumb(index)), index + 1)

\* updateBreadcrumbs() without `breadcrumbs.innerHTML = ''`.
updateBreadcrumbsNoClear ==
    breadcrumbs' = AppendCrumbs(breadcrumbs, 0)

\* updateBreadcrumbs(): the container is emptied (innerHTML = ''), then
\* refilled.  It reads the value `current` has when it runs.
updateBreadcrumbs ==
    breadcrumbs' = AppendCrumbs(<<>>, 0)

\* updateNav() comparing with slides.length instead of slides.length - 1.
updateNavOffByOne ==
    /\ prevDisabled' = (current = 0)
    /\ nextDisabled' = (current = length)

\* updateNav()
updateNav ==
    /\ prevDisabled' = (current = 0)
    /\ nextDisabled' = (current = length - 1)

\* The clamp without its upper bound: Math.max(0, index).
ClampNoCeil(index) == MathMax(0, index)

\* The clamp without its lower bound: Math.min(index, slides.length - 1).
ClampNoFloor(index) == MathMin(index, length - 1)

\* The clamp with its two bounds applied in the other order:
\* Math.min(Math.max(0, index), slides.length - 1).
ClampCeilLast(index) == MathMin(MathMax(0, index), length - 1)

\* const nextIndex = Math.max(0, Math.min(index, slides.length - 1))
Clamp(index) == MathMax(0, MathMin(index, length - 1))

\* What a handler sees when it is entered.
Snapshot ==
    [current |-> current, slides |-> slides, breadcrumbs |-> breadcrumbs,
     prevDisabled |-> prevDisabled, nextDisabled |-> nextDisabled]

\* return from goTo: the handler is over, the event loop is idle again.  The
\* record of the event just handled stays until the next one is dispatched.
Return ==
    /\ pc' = "idle"
    /\ UNCHANGED <<event, call, pre>>

\* goTo(index), called by `caller`: the call is entered and line 30 computes
\* the clamped target.
goTo(caller, index) ==
    /\ call' = <<[caller |-> caller, index |-> index, nextIndex |-> Clamp(index)]>>
    /\ pre' = <<Snapshot>>
    /\ pc' = "L31"
    /\ UNCHANGED <<slides, current, breadcrumbs, prevDisabled, nextDisabled,
                   listeners, threw>>

\* next() writing the index itself before it calls goTo.
nextWrites ==
    /\ call' = <<[caller |-> "next", index |-> current + 1,
                  nextIndex |-> Clamp(current + 1)]>>
    /\ pre' = <<Snapshot>>
    /\ pc' = "L31"
    /\ current' = Clamp(current + 1)
    /\ UNCHANGED <<slides, breadcrumbs, prevDisabled, nextDisabled,
                   listeners, threw>>

\* next() stepping two slides: goTo(current + 2).
nextSkip == goTo("next", current + 2)

\* function next() { goTo(current + 1); }
next == goTo("next", current + 1)

\* function prev() { goTo(current - 1); }
prev == goTo("prev", current - 1)

\* goTo without the early return of line 31.
GuardNever ==
    /\ pc = "L31"
    /\ pc' = "L32"
    /\ UNCHANGED <<slides, current, breadcrumbs, prevDisabled, nextDisabled,
                   listeners, event, call, pre, run, threw>>

\* Line 31: if (nextIndex === current) return;
Guard ==
    /\ pc = "L31"
    /\ IF call[1].nextIndex = current
       THEN Return
       ELSE pc' = "L32" /\ UNCHANGED <<event, call, pre>>
    /\ UNCHANGED <<slides, current, breadcrumbs, prevDisabled, nextDisabled,
                   listeners, run, threw>>

\* slides[current].style.display = value.  With `current` outside the array
\* slides[current] is undefined and the assignment throws a TypeError, which
\* ends the handler.
SetDisplay(value, then) ==
    IF current \in DOMAIN slides
    THEN /\ slides' = [slides EXCEPT ![current].display = value]
         /\ pc' = then
         /\ UNCHANGED <<event, call, pre, threw>>
    ELSE /\ threw' = TRUE
         /\ Return
         /\ UNCHANGED slides

\* goTo with lines 32 and 33 swapped: the slide hidden is the new one.
HideNew ==
    /\ pc = "L32"
    /\ slides' = [slides EXCEPT ![call[1].nextIndex].display = "none"]
    /\ pc' = "L33"
    /\ UNCHANGED <<current, breadcrumbs, prevDisabled, nextDisabled,
                   listeners, event, call, pre, run, threw>>

\* goTo without line 32: the old slide is left as it is.
HideSkip ==
    /\ pc = "L32"
    /\ pc' = "L33"
    /\ UNCHANGED <<slides, current, breadcrumbs, prevDisabled, nextDisabled,
                   listeners, event, call, pre, run, threw>>

\* Line 32: slides[current].style.display = 'none';
Hide ==
    /\ pc = "L32"
    /\ SetDisplay("none", "L33")
    /\ UNCHANGED <<current, breadcrumbs, prevDisabled, nextDisabled, listeners, run>>

\* Line 33: current = nextIndex;
SetCurrent ==
    /\ pc = "L33"
    /\ current' = call[1].nextIndex
    /\ pc' = "L34"
    /\ UNCHANGED <<slides, breadcrumbs, prevDisabled, nextDisabled, listeners,
                   event, call, pre, run, threw>>

\* Line 34 with the style 'block' in place of the empty string.
ShowBlock ==
    /\ pc = "L34"
    /\ SetDisplay("block", "L35")
    /\ UNCHANGED <<current, breadcrumbs, prevDisabled, nextDisabled, listeners, run>>

\* Line 34: slides[current].style.display = '';
Show ==
    /\ pc = "L34"
    /\ SetDisplay("", "L35")
    /\ UNCHANGED <<current, breadcrumbs, prevDisabled, nextDisabled, listeners, run>>

\* Line 35: updateBreadcrumbs();
Rebuild ==
    /\ pc = "L35"
    /\ updateBreadcrumbs
    /\ pc' = "L36"
    /\ UNCHANGED <<slides, current, prevDisabled, nextDisabled, listeners,
                   event, call, pre, run, threw>>

\* goTo without the call of line 36: the flags keep their last values.
RenavSkip ==
    /\ pc = "L36"
    /\ Return
    /\ UNCHANGED <<slides, current, breadcrumbs, prevDisabled, nextDisabled,
                   listeners, run, threw>>

\* Line 36: updateNav(); and goTo returns.
Renav ==
    /\ pc = "L36"
    /\ updateNav
    /\ Return
    /\ UNCHANGED <<slides, current, breadcrumbs, listeners, run, threw>>

\* The run of identical arrow-key presses after a keydown of `key`: a press
\* of the key of the run so far lengthens it, any other arrow press starts a
\* new run at the present index.  Runs longer than MaxPresses are counted
\* afresh from the index they have reached.
Press(key) ==
    IF run # <<>> /\ run[1].key = key /\ run[1].count < MaxPresses
    THEN <<[run[1] EXCEPT !.count = @ + 1]>>
    ELSE <<[key |-> key, start |-> current, count |-> 1]>>

\* prevBtn.addEventListener('click', prev) has run and the button is clicked.
\* The click is delivered whatever prevBtn.disabled is: the element behind
\* the id need not be a form control.
PrevClick ==
    /\ pc = "idle"
    /\ "prev" \in listeners
    /\ prev
    /\ event' = "prevClick"
    /\ run' = <<>>

\* nextBtn.addEventListener('click', next) has run and the button is clicked.
NextClick ==
    /\ pc = "idle"
    /\ "next" \in listeners
    /\ next
    /\ event' = "nextClick"
    /\ run' = <<>>

\* The keydown listener with `else prev()` for every key but ArrowRight.
KeyDownElse(key) ==
    /\ pc = "idle"
    /\ "keydown" \in listeners
    /\ event' = key
    /\ IF key = "ArrowRight"
       THEN next /\ run' = Press(key)
       ELSE prev /\ run' = Press(key)

\* The keydown listener with the two arrow keys swapped.
KeyDownSwapped(key) ==
    /\ pc = "idle"
    /\ "keydown" \in listeners
    /\ event' = key
    /\ IF key = "ArrowRight"
       THEN prev /\ run' = Press(key)
       ELSE IF key = "ArrowLeft"
       THEN next /\ run' = Press(key)
       ELSE /\ call' = <<>>
            /\ pre' = <<Snapshot>>
            /\ run' = <<>>
            /\ UNCHANGED <<slides, current, breadcrumbs, prevDisabled,
                           nextDisabled, listeners, pc, threw>>

\* The keydown listener of lines 48-51, with event.key = key.
KeyDown(key) ==
    /\ pc = "idle"
    /\ "keydown" \in listeners
    /\ event' = key
    /\ IF key = "ArrowRight"
       THEN next /\ run' = Press(key)
       ELSE IF key = "ArrowLeft"
       THEN prev /\ run' = Press(key)
       ELSE /\ call' = <<>>
            /\ pre' = <<Snapshot>>
            /\ run' = <<>>
            /\ UNCHANGED <<slides, current, breadcrumbs, prevDisabled,
                           nextDisabled, listeners, pc, threw>>

\* The click listener of the marker at child position p (line 19): it calls
\* goTo with the index the marker was built for.
CrumbClick(p) ==
    /\ pc = "idle"
    /\ p \in 1..Len(breadcrumbs)
    /\ goTo("crumb", breadcrumbs[p].index)
    /\ event' = "crumbClick"
    /\ run' = <<>>

\* The hide loop without its `idx !== 0` test: every slide is hidden.
HideLoopAll ==
    /\ pc = "L42"
    /\ slides' = [idx \in DOMAIN slides |-> [slides[idx] EXCEPT !.display = "none"]]
    /\ pc' = "L46"
    /\ UNCHANGED <<current, breadcrumbs, prevDisabled, nextDisabled, listeners,
                   event, call, pre, run, threw>>

\* Lines 42-44: every slide but the first is hidden.
HideLoop ==
    /\ pc = "L42"
    /\ slides' = [idx \in DOMAIN slides |->
                    IF idx # 0 THEN [slides[idx] EXCEPT !.display = "none"]
                               ELSE slides[idx]]
    /\ pc' = "L46"
    /\ UNCHANGED <<current, breadcrumbs, prevDisabled, nextDisabled, listeners,
                   event, call, pre, run, threw>>

\* One addEventListener call of the script body, at line `at`.
Attach(at, name, then) ==
    /\ pc = at
    /\ listeners' = listeners \cup {name}
    /\ pc' = then
    /\ UNCHANGED <<slides, current, breadcrumbs, prevDisabled, nextDisabled,
                   event, call, pre, run, threw>>

\* Line 46: prevBtn.addEventListener('click', prev);
AttachPrev == Attach("L46", "prev", "L47")

\* Line 47: nextBtn.addEventListener('click', next);
AttachNext == Attach("L47", "next", "L48")

\* Lines 48-51: document.addEventListener('keydown', ...);
AttachKeydown == Attach("L48", "keydown", "L53")

\* The script body without the call of line 53.
InitBreadcrumbsSkip ==
    /\ pc = "L53"
    /\ pc' = "L54"
    /\ UNCHANGED <<slides, current, breadcrumbs, prevDisabled, nextDisabled,
                   listeners, event, call, pre, run, threw>>

\* Line 53: updateBreadcrumbs();
InitBreadcrumbs ==
    /\ pc = "L53"
    /\ updateBreadcrumbs
    /\ pc' = "L54"
    /\ UNCHANGED <<slides, current, prevDisabled, nextDisabled, listeners,
                   event, call, pre, run, threw>>

\* Line 54: updateNav(); the script body ends and the event loop takes over.
InitNav ==
    /\ pc = "L54"
    /\ updateNav
    /\ pc' = "idle"
    /\ UNCHANGED <<slides, current, breadcrumbs, listeners, event, call, pre, run, threw>>

\* Lines 2-6, before line 42 runs: the slides are collected, each with the
\* data-title of the page and no inline display style, the breadcrumb
\* container is empty, no button is disabled, and current = 0.
Init ==
    /\ \E n \in 0..MaxSlides :
         slides \in [0..(n - 1) -> {[title |-> t, display |-> ""] : t \in Titles}]
    /\ current = 0
    /\ breadcrumbs = <<>>
    /\ prevDisabled = FALSE
    /\ nextDisabled = FALSE
    /\ listeners = {}
    /\ pc = "L42"
    /\ event = "load"
    /\ call = <<>>
    /\ pre = <<>>
    /\ run = <<>>
    /\ threw = FALSE

\* The script body, line by line.
Load ==
    \/ HideLoop
    \/ AttachPrev
    \/ AttachNext
    \/ AttachKeydown
    \/ InitBreadcrumbs
    \/ InitNav

\* One input event is dispatched to its listener.
Dispatch ==
    \/ PrevClick
    \/ NextClick
    \/ \E key \in Keys : KeyDown(key)
    \/ \E p \in 1..MaxSlides : CrumbClick(p)

\* The body of goTo after line 30, line by line.
Step ==
    \/ Guard
    \/ Hide
    \/ SetCurrent
    \/ Show
    \/ Rebuild
    \/ Renav

Next == Load \/ Dispatch \/ Step

Spec == Init /\ [][Next]_vars

\* goTo called with any integer as its argument, as a caller inside the
\* closure could.
DirectGoTo ==
    \E index \in (0 - MaxOvershoot)..(MaxSlides + MaxOvershoot) :
        /\ pc = "idle"
        /\ goTo("direct", index)
        /\ event' = "call"
        /\ run' = <<>>

SpecGoTo == Init /\ [][Next \/ DirectGoTo]_vars

(***************************************************************************)
(* Properties.                                                             *)
(***************************************************************************)

\* max(0, min(index, N-1)) for a deck of N >= 1 slides, by cases.
Target(index) ==
    IF index < 0 THEN 0
    ELSE IF index > length - 1 THEN length - 1
    ELSE index

\* The child positions of the markers flagged active.
ActiveSet ==
    {p \in 1..Len(breadcrumbs) : breadcrumbs[p].className = "crumb active"}

\* A goTo call has been made by the event handled last and has returned.
Completed == pc = "idle" /\ call # <<>>

\* C1: for N >= 1 and every integer i, when goTo(i) has completed current is
\* max(0, min(i, N-1)): an index below 0 gives 0, one above N-1 gives N-1,
\* and no call ends in an error.
C1_GoToClamps ==
    /\ ~threw
    /\ (Completed /\ length >= 1) => current = Target(call[1].index)

\* C1 witness: goTo(5) on a 3-slide deck, called at index 0, ended at 2.
C1_Witness ==
    /\ Completed
    /\ length = 3
    /\ call[1].index = 5
    /\ pre[1].current = 0
    /\ current = 2

\* C2: once the script body has run, and after every input event has been
\* handled, exactly one slide is visible and it is the slide at `current`.
C2_OneVisible ==
    (pc = "idle" /\ length >= 1) => VisibleSet = {current}

\* C2 witness: ArrowLeft handled on a 4-slide deck, from index 2 to 1.
C2_Witness ==
    /\ pc = "idle"
    /\ event = "ArrowLeft"
    /\ length = 4
    /\ pre[1].current = 2
    /\ current = 1
    /\ VisibleSet = {1}

\* C3: for N >= 1, 0 <= current < N in every state, whatever integers goTo
\* is called with; current is 0 when the script starts.
C3_IndexInRange ==
    /\ length >= 1 => current \in 0..(length - 1)
    /\ pc = "L42" => current = 0

\* C3 witness: goTo(-2) called at index 2 of a 4-slide deck has completed.
C3_Witness ==
    /\ Completed
    /\ length = 4
    /\ call[1].index = 0 - 2
    /\ pre[1].current = 2
    /\ current = 0

\* C4: a goTo whose clamped target is the index it was called at returns at
\* line 31: it never gets past that line, and current, every display style,
\* the markers and both disabled flags are what they were at the call.
C4_NoOpGuard ==
    (call # <<>> /\ length >= 1 /\ Target(call[1].index) = pre[1].current)
        => /\ pc \in {"L31", "idle"}
           /\ Snapshot = pre[1]

\* C4 witness: the next button clicked at the last index of a 5-slide deck.
C4_Witness ==
    /\ Completed
    /\ event = "nextClick"
    /\ length = 5
    /\ pre[1].current = 4
    /\ call[1].index = 5

\* C5: once the script body has run, and after every navigation, prevBtn is
\* disabled iff current = 0 and nextBtn is disabled iff current = N - 1.
C5_ControlInvariant ==
    pc = "idle" =>
        /\ prevDisabled <=> (current = 0)
        /\ nextDisabled <=> (current = length - 1)

\* C5 witness: on a 5-slide deck the previous button took index 1 to 0:
\* previous is disabled again, next is enabled.
C5_Witness ==
    /\ Completed
    /\ event = "prevClick"
    /\ length = 5
    /\ pre[1].current = 1
    /\ current = 0
    /\ prevDisabled
    /\ ~nextDisabled

\* C6: once the script body has run, and after any navigations, the container
\* holds exactly N markers, the marker at child position p is the one of
\* slide p - 1, and exactly the marker of slide `current` is active.
C6_BreadcrumbInvariant ==
    pc = "idle" =>
        /\ Len(breadcrumbs) = length
        /\ \A p \in 1..Len(breadcrumbs) :
             /\ breadcrumbs[p].index = p - 1
             /\ breadcrumbs[p].label = Label(slides[p - 1], p - 1)
        /\ length >= 1 => ActiveSet = {current + 1}

\* C6 witness: three ArrowRight presses, hence three rebuilds after the
\* first build, on a 4-slide deck.
C6_Witness ==
    /\ Completed
    /\ event = "ArrowRight"
    /\ run[1].count = 3
    /\ length = 4
    /\ current = 3
    /\ Len(breadcrumbs) = 4
    /\ ActiveSet = {4}

\* The lines of goTo after the clamp, and the lines of the script body.
GoToLines == {"L31", "L32", "L33", "L34", "L35", "L36"}
LoadLines == {"L42", "L46", "L47", "L48", "L53", "L54"}

\* C7, as claimed: at every step of a goTo call exactly one slide is visible.
C7_AlwaysOneVisible ==
    (length >= 1 /\ pc \in GoToLines) => Cardinality(VisibleSet) = 1

\* C7, amended: within a goTo call two slides are never visible.  Exactly the
\* slide at `current` is visible until line 32 has run and again once line
\* 34 has run; between the two (before lines 33 and 34) no slide is visible.
C7_AtMostOneVisible ==
    length >= 1 =>
        /\ pc \in {"L31", "L32", "L35", "L36"} => VisibleSet = {current}
        /\ pc \in {"L33", "L34"} => VisibleSet = {}

\* C7 witness: a crumb click from index 0 to 2 on a 3-slide deck has hidden
\* slide 0 and set current, and has not yet shown slide 2.
C7_Witness ==
    /\ pc = "L34"
    /\ event = "crumbClick"
    /\ length = 3
    /\ pre[1].current = 0
    /\ current = 2
    /\ VisibleSet = {}

\* C8, as claimed: no listener is attached while the script body has still
\* to build the breadcrumb view or to compute the control state.
C8_ListenersAfterRender ==
    listeners # {} => pc \notin LoadLines

\* C8, amended: the slides other than index 0 are hidden with current = 0,
\* then the prev, next and keydown listeners are attached in this order, then
\* the breadcrumb view is built, then the control state is computed; all
\* three listeners are attached while the view is unbuilt, and no input
\* event is handled before the script body has finished.
C8_InitOrder ==
    /\ pc \in LoadLines => event = "load" /\ call = <<>> /\ current = 0
    /\ pc = "L42" => listeners = {} /\ VisibleSet = DOMAIN slides
    /\ pc \in LoadLines \ {"L42"} => VisibleSet = DOMAIN slides \cap {0}
    /\ pc = "L46" => listeners = {}
    /\ pc = "L47" => listeners = {"prev"}
    /\ pc = "L48" => listeners = {"prev", "next"}
    /\ pc \notin {"L42", "L46", "L47", "L48"} => listeners = {"prev", "next", "keydown"}
    /\ pc \in {"L42", "L46", "L47", "L48", "L53"} => breadcrumbs = <<>>
    /\ pc \notin {"L42", "L46", "L47", "L48", "L53"} => Len(breadcrumbs) = length
    /\ pc \in LoadLines => ~prevDisabled /\ ~nextDisabled
    /\ pc = "idle" /\ event = "load" => prevDisabled /\ (nextDisabled <=> length = 1)

\* C8 witness: on a 3-slide deck all three listeners are attached and the
\* breadcrumb container is still empty.
C8_Witness ==
    /\ pc = "L53"
    /\ length = 3
    /\ listeners = {"prev", "next", "keydown"}
    /\ breadcrumbs = <<>>
    /\ VisibleSet = {0}

\* The state goTo(index) leaves when called in state s of a deck of N >= 1
\* slides: s itself when the target is s.current; otherwise the old slide
\* hidden, the target shown, N markers with the target's active, and the
\* disabled flags of the target.
Expected(s, index) ==
    LET t == Target(index) IN
    IF t = s.current THEN s
    ELSE [current |-> t,
          slides |-> [i \in DOMAIN s.slides |->
                        [title |-> s.slides[i].title,
                         display |-> IF i = t THEN ""
                                     ELSE IF i = s.current THEN "none"
                                     ELSE s.slides[i].display]],
          breadcrumbs |-> [p \in 1..length |->
                        [className |-> IF p - 1 = t THEN "crumb active" ELSE "crumb",
                         label |-> s.breadcrumbs[p].label,
                         index |-> p - 1]],
          prevDisabled |-> (t = 0),
          nextDisabled |-> (t = length - 1)]

\* C9: every completed goTo(i), whoever called it, leaves the state
\* Expected(state at the call, i); next() calls goTo with current + 1 and
\* prev() with current - 1.  So next() moves by exactly one below the last
\* index and changes nothing at it, and prev() likewise at index 0.
C9_NextPrevAreGoTo ==
    (Completed /\ length >= 1) =>
        /\ Snapshot = Expected(pre[1], call[1].index)
        /\ call[1].caller = "next" =>
             /\ call[1].index = pre[1].current + 1
             /\ Snapshot = Expected(pre[1], pre[1].current + 1)
             /\ current = IF pre[1].current < length - 1
                          THEN pre[1].current + 1 ELSE pre[1].current
        /\ call[1].caller = "prev" =>
             /\ call[1].index = pre[1].current - 1
             /\ Snapshot = Expected(pre[1], pre[1].current - 1)
             /\ current = IF pre[1].current > 0
                          THEN pre[1].current - 1 ELSE pre[1].current

\* C9 witness: N = 5, next() at index 2: index 3, slide 2 hidden, slide 3
\* shown, marker 3 active.
C9_Witness ==
    /\ Completed
    /\ call[1].caller = "next"
    /\ length = 5
    /\ pre[1].current = 2
    /\ current = 3
    /\ ~Visible(2)
    /\ Visible(3)
    /\ ActiveSet = {4}

\* C10: after k consecutive ArrowRight presses that began at index j (j = 0
\* right after loading) current is min(j + k, N - 1), and after k
\* consecutive ArrowLeft presses that began at index j it is max(j - k, 0).
C10_ArrowRuns ==
    (pc = "idle" /\ run # <<>> /\ length >= 1) =>
        LET r == run[1] IN
        IF r.key = "ArrowRight"
        THEN current = (IF r.start + r.count <= length - 1
                        THEN r.start + r.count ELSE length - 1)
        ELSE current = (IF r.start - r.count >= 0
                        THEN r.start - r.count ELSE 0)

\* C10 witness: four ArrowRight presses from index 0 on a 3-slide deck: the
\* last slide was reached by the second, the other two changed nothing.
C10_Witness ==
    /\ pc = "idle"
    /\ run # <<>>
    /\ run[1] = [key |-> "ArrowRight", start |-> 0, count |-> 4]
    /\ length = 3
    /\ current = 2
    /\ Snapshot = pre[1]

\* C11: a click on the marker at child position p calls goTo(p - 1), the
\* index of that marker's own slide, however often the markers have been
\* rebuilt; when the call has returned current is that index, whatever it
\* was before.
C11_CrumbClickGoesToItsIndex ==
    [][/\ \A p \in 1..MaxSlides :
            CrumbClick(p) => /\ call'[1].index = p - 1
                             /\ call'[1].caller = "crumb"
       /\ (event = "crumbClick" /\ pc # "idle" /\ pc' = "idle")
            => /\ current' = call[1].index
               /\ call[1].index \in 0..(length - 1)
               /\ ~threw'
               /\ ActiveSet' = {current' + 1}
               /\ VisibleSet' = {current'}]_vars

\* C11 witness: N = 5, the marker of slide 4 clicked at index 0: index 4,
\* next disabled, previous enabled.
C11_Witness ==
    /\ Completed
    /\ event = "crumbClick"
    /\ length = 5
    /\ pre[1].current = 0
    /\ call[1].index = 4
    /\ current = 4
    /\ nextDisabled
    /\ ~prevDisabled

\* C12: a keydown whose key is neither ArrowRight nor ArrowLeft calls
\* nothing: current, every display style, the markers and both disabled
\* flags are what they were when the key was pressed.
C12_OtherKeysIgnored ==
    (event \in Keys \ {"ArrowRight", "ArrowLeft"})
        => /\ pc = "idle"
           /\ call = <<>>
           /\ Snapshot = pre[1]
           /\ ~threw

\* C12 witness: Enter pressed at index 1 of a 3-slide deck.
C12_Witness ==
    /\ event = "Enter"
    /\ pc = "idle"
    /\ length = 3
    /\ current = 1
    /\ pre[1].current = 1
    /\ VisibleSet = {1}

\* The slides of s with slide i hidden, and with slide i shown.
Hidden(sl, i) == [sl EXCEPT ![i].display = "none"]
Shown(sl, i) == [sl EXCEPT ![i].display = ""]

\* C13: a goTo whose target t differs from current runs in this order: line
\* 32 hides the old slide, line 33 sets current to t, line 34 shows slide t,
\* line 35 rebuilds the markers, line 36 recomputes the disabled flags.  The
\* rebuild and the flags read the new current: the active marker is t's and
\* the flags are t's.
C13_GoToOrder ==
    (call # <<>> /\ length >= 1) =>
        LET s == pre[1]
            t == call[1].nextIndex
            old == Hidden(s.slides, s.current)
            new == Shown(old, t)
        IN
        /\ pc \in {"L32", "L33", "L34", "L35", "L36"} =>
             /\ t = Target(call[1].index)
             /\ t # s.current
        /\ pc = "L32" => Snapshot = s
        /\ pc = "L33" => current = s.current /\ slides = old
        /\ pc = "L34" => current = t /\ slides = old
        /\ pc \in {"L35", "L36"} => current = t /\ slides = new
        /\ pc \in {"L33", "L34", "L35"} => breadcrumbs = s.breadcrumbs
        /\ pc = "L36" => Len(breadcrumbs) = length /\ ActiveSet = {t + 1}
        /\ pc \in {"L33", "L34", "L35", "L36"} =>
             /\ prevDisabled = s.prevDisabled
             /\ nextDisabled = s.nextDisabled
        /\ (pc = "idle" /\ t # s.current) =>
             /\ current = t
             /\ slides = new
             /\ ActiveSet = {t + 1}
             /\ prevDisabled = (t = 0)
             /\ nextDisabled = (t = length - 1)

\* C13 witness: N = 4, next clicked at index 0: the markers are rebuilt with
\* marker 1 active while the disabled flags are still those of index 0.
C13_Witness ==
    /\ pc = "L36"
    /\ event = "nextClick"
    /\ length = 4
    /\ pre[1].current = 0
    /\ current = 1
    /\ ActiveSet = {2}
    /\ prevDisabled
    /\ ~nextDisabled

\* The slides whose record differs from the one they had when the handler
\* was entered.
Changed == {i \in DOMAIN slides : slides[i] # pre[1].slides[i]}

\* C14: a goTo that changes the index turns off the old slide, which was
\* visible, and turns on the new one, which was hidden; no other slide is
\* touched at any step of the call, however far the jump.
C14_TwoFlips ==
    (call # <<>> /\ length >= 1) =>
        /\ Changed \subseteq {pre[1].current, call[1].nextIndex}
        /\ (pc = "idle" /\ current # pre[1].current) =>
             /\ Changed = {pre[1].current, current}
             /\ pre[1].slides[pre[1].current].display = ""
             /\ slides[pre[1].current].display = "none"
             /\ pre[1].slides[current].display = "none"
             /\ slides[current].display = ""

\* C14 witness: N = 5, the marker of slide 4 clicked at index 0: slides 1,
\* 2 and 3 are skipped and keep their style.
C14_Witness ==
    /\ Completed
    /\ event = "crumbClick"
    /\ length = 5
    /\ pre[1].current = 0
    /\ current = 4
    /\ Changed = {0, 4}
    /\ \A i \in {1, 2, 3} : slides[i] = pre[1].slides[i]

\* The line that follows each line of goTo when it does not return.
After(line) ==
    CASE line = "L31" -> "L32"
      [] line = "L32" -> "L33"
      [] line = "L33" -> "L34"
      [] line = "L34" -> "L35"
      [] line = "L35" -> "L36"
      [] OTHER -> "idle"

\* C15: no two navigations interleave.  While a handler runs no other event
\* is dispatched: the event, its goTo frame and its entry snapshot stay the
\* same until the handler has returned.  goTo goes from each line to the
\* next one or returns, and is never entered again from the rebuild or the
\* flag update.  current is written by line 33 of goTo and nowhere else.
C15_RunToCompletion ==
    [][/\ pc # "idle" => UNCHANGED <<event, call, pre>>
       /\ pc \in GoToLines => pc' \in {After(pc), "idle"}
       /\ pc \in {"L32", "L33", "L34", "L35"} => pc' = After(pc)
       /\ pc \in LoadLines => pc' \notin GoToLines
       /\ pc' = "L31" => pc = "idle"
       /\ current' # current => (pc = "L33" /\ current' = call[1].nextIndex)]_vars

\* C15 witness: a handler in the middle of its render, two slides on from
\* where the ArrowRight run began.
C15_Witness ==
    /\ pc = "L35"
    /\ event = "ArrowRight"
    /\ run # <<>>
    /\ run[1].count = 2
    /\ length = 4
    /\ pre[1].current = 1
    /\ current = 2

\* The generated fallback label of slide `index`: the word of line 16 (it
\* means "slide"), a space and the 1-based number of the slide.
Generated(index) == "Slajd " \o ToString(index + 1)

\* C16, as claimed: the label of marker i is the slide's title when the
\* slide has a data-title, and the generated fallback exactly when it has
\* none.
C16_FallbackOnlyWhenAbsent ==
    pc = "idle" =>
        \A p \in 1..Len(breadcrumbs) :
            breadcrumbs[p].label =
                IF slides[p - 1].title = NoTitle
                THEN Generated(p - 1)
                ELSE slides[p - 1].title

\* C16, amended: the label of marker i is the slide's title when the slide
\* has a non-empty one, and the generated 1-based fallback exactly when the
\* title is absent or the empty string.
C16_FallbackWhenAbsentOrEmpty ==
    pc = "idle" =>
        /\ Len(breadcrumbs) = length
        /\ \A p \in 1..Len(breadcrumbs) :
             LET title == slides[p - 1].title IN
             /\ breadcrumbs[p].label =
                    IF title = NoTitle \/ title = ""
                    THEN Generated(p - 1)
                    ELSE title
             /\ (breadcrumbs[p].label = Generated(p - 1))
                    <=> (title = NoTitle \/ title = "")

\* C16 witness: a titled slide, a slide with an empty data-title and a slide
\* without one.
C16_Witness ==
    /\ pc = "idle"
    /\ length = 3
    /\ slides[0].title = "Intro"
    /\ slides[1].title = ""
    /\ slides[2].title = NoTitle
    /\ Len(breadcrumbs) = 3
    /\ breadcrumbs[1].label = "Intro"
    /\ breadcrumbs[2].label = "Slajd 2"
    /\ breadcrumbs[3].label = "Slajd 3"

\* What the page shows for index c of this deck, whatever led to c: slide c
\* alone visible, one marker per slide in order with the one of c active,
\* prev disabled at 0 and next disabled at N - 1.
Rendered(c) ==
    [current |-> c,
     slides |-> [i \in DOMAIN slides |->
                   [title |-> slides[i].title,
                    display |-> IF i = c THEN "" ELSE "none"]],
     breadcrumbs |-> [p \in 1..length |->
                   [className |-> IF p - 1 = c THEN "crumb active" ELSE "crumb",
                    label |-> IF slides[p - 1].title \in {NoTitle, ""}
                              THEN Generated(p - 1) ELSE slides[p - 1].title,
                    index |-> p - 1]],
     prevDisabled |-> (c = 0),
     nextDisabled |-> (c = length - 1)]

\* C17: whenever no handler runs, the display styles, the markers and the
\* disabled flags are a function of the deck and of current alone, so two
\* event sequences that end at the same index end in the same state.
C17_HistoryIndependent ==
    pc = "idle" => Snapshot = Rendered(current)

\* C17 witness: index 1 of a 4-slide deck reached backwards, by a click on
\* marker 1 at index 3, after index 3 had been reached some other way.
C17_Witness ==
    /\ Completed
    /\ event = "crumbClick"
    /\ length = 4
    /\ pre[1].current = 3
    /\ current = 1
    /\ Snapshot = Rendered(1)

\* C18: on an empty deck every goTo(i), next() and prev() computes the
\* target 0 and returns at line 31 without touching slides[current]: current
\* stays 0, which is not below N, no TypeError is raised, no marker exists,
\* and once the script body has run prev is disabled and next is enabled.
C18_EmptyDeck ==
    length = 0 =>
        /\ current = 0
        /\ ~threw
        /\ breadcrumbs = <<>>
        /\ pc \in LoadLines \cup {"L31", "idle"}
        /\ call # <<>> => call[1].nextIndex = 0
        /\ pc = "idle" => prevDisabled /\ ~nextDisabled

\* C18 witness: goTo(2) has returned on an empty deck.
C18_Witness ==
    /\ length = 0
    /\ Completed
    /\ call[1].index = 2
    /\ current = 0
    /\ prevDisabled
    /\ ~nextDisabled

\* C19: round trips, for N >= 1.  Let s0 be the state a call was made in and
\* s1 the state it has left.  Every call leaves Expected(s0, i); so the call
\* that follows leaves Expected(s1, j) for its own argument j.
\*  - After a next() that moved, prev() is goTo(s1.current - 1), which is
\*    goTo(s0.current), and Expected(s1, s0.current) is s0: current, every
\*    display style, the markers and the flags are restored.  Likewise for
\*    next() after a prev() that moved.
\*  - After goTo(i), the clamp of i is s1.current, so goTo(i) again returns
\*    at line 31 and leaves s1.
C19_RoundTrip ==
    (Completed /\ length >= 1) =>
        LET s0 == pre[1]
            i == call[1].index
        IN
        /\ Snapshot = Expected(s0, i)
        /\ call[1].caller = "next" => i = s0.current + 1
        /\ call[1].caller = "prev" => i = s0.current - 1
        /\ (call[1].caller = "next" /\ s0.current < length - 1) =>
             /\ current - 1 = s0.current
             /\ Clamp(current - 1) = s0.current
             /\ Expected(Snapshot, current - 1) = s0
        /\ (call[1].caller = "prev" /\ s0.current > 0) =>
             /\ current + 1 = s0.current
             /\ Clamp(current + 1) = s0.current
             /\ Expected(Snapshot, current + 1) = s0
        /\ Clamp(i) = current
        /\ Expected(Snapshot, i) = Snapshot

\* C19 witness: N = 4, prev() has taken index 2 back to index 1, and next()
\* from here leads to the state prev() was called in.
C19_Witness ==
    /\ Completed
    /\ call[1].caller = "prev"
    /\ length = 4
    /\ pre[1].current = 2
    /\ current = 1
    /\ Expected(Snapshot, 2) = pre[1]

====
